---- MODULE Spec2Model ----
(***************************************************************************)
(* The chat subsystem of the repository: the chat controller's five        *)
(* routes and its joinChat/leaveChat socket handlers (chat.controller),    *)
(* over the chat service (chat.service.ts), a document store of users,     *)
(* messages and chats, and the realtime transport.  Every route is a       *)
(* sequence of steps, one per await, so that requests interleave exactly   *)
(* where the code suspends.                                                *)
(***************************************************************************)
EXTENDS Integers, Sequences, FiniteSets, TLC

\* ------------------------------------------------------------------ bounds
\* Requests that may arrive in one behaviour.
MaxRequests == 2
\* Store or hydration operations that may fail in one behaviour.
MaxFaults == 1

\* Requests in flight at once, and connected realtime clients.
Slots == {1, 2}
Conns == {"k1", "k2"}

\* --------------------------------------------------------------- JSON values
\* A request field is a JSON value: what typeof says of it, and its text.
S(x) == [t |-> "string", v |-> x]
N7 == [t |-> "number", v |-> "7"]
UNDEF == [t |-> "undefined", v |-> ""]

Range(s) == {s[i] : i \in DOMAIN s}

\* ------------------------------------------------------------- identity store
\* The user collection, in store order; usernames are unique.
Users ==
  << [username |-> "alice", id |-> "u1"],
     [username |-> "bob", id |-> "u2"],
     [username |-> "carol", id |-> "u3"] >>

\* The identifiers ChatModel.create hands out, in order of creation.
ChatIdPool == << "c1", "c2", "c3", "c4" >>

\* mongoose's isValidObjectId on a string: the well-formed identifiers.
isValidObjectId(x) ==
  x \in Range(ChatIdPool) \cup {Users[i].id : i \in DOMAIN Users} \cup {"u9"}

\* !x of a JSON value: undefined and the empty string are falsy.
Falsy(j) == j.t = "undefined" \/ (j.t = "string" /\ j.v = "")

\* The date strings Date.parse accepts; new Date(x) also takes any number.
ValidDateStrings == {"2025-01-01"}
Date_parse_isNaN(str) == str \notin ValidDateStrings
newDate_isNaN(j) ==
  ~(j.t = "number" \/ (j.t = "string" /\ j.v \in ValidDateStrings))

\* String.prototype.trim(): the strings of whitespace alone trim to "".
BlankStrings == {"", " ", "   "}
trim(str) == IF str \in BlankStrings THEN "" ELSE str

\* UserModel.find({ username: { $in: names } }): every user whose username
\* is among the names, once each, in store order.
UserModel_find(names) == SelectSeq(Users, LAMBDA u : u.username \in names)

\* UserModel.findOne({}): some user, whatever the name.
UserModel_findOne_Any(name) == << Users[1] >>

\* UserModel.findOne({ username }): the user, or none (the empty sequence).
UserModel_findOne(name) == SelectSeq(Users, LAMBDA u : u.username = name)

\* --------------------------------------------------------------------- state
VARIABLES
  chats,      \* the chat collection: records [id, participants, messages]
  messages,   \* the message collection; a message's _id is its index
  reqs,       \* per slot: the request being handled, its locals and response
  rooms,      \* per connection: the channels it has joined
  delivered,  \* per connection: the chatUpdate events it has received
  issued,     \* requests that have arrived so far
  faults,     \* store failures that have happened so far
  script,     \* 0: any request may arrive; k > 0: the spec's example, step k
  hook,       \* the state of one client's useDirectMessage hook
  calls       \* per slot: the call of that client the request comes from

vars ==
  << chats, messages, reqs, rooms, delivered, issued, faults, script, hook, calls >>

\* The hook before its component is mounted: useState's initial values.
NoHook ==
  [ mounted |-> "no", chats |-> << >>, selectedChat |-> "",
    handled |-> {}, added |-> {}, acts |-> 0 ]

NoBody == [kind |-> "none", error |-> "", chats |-> << >>]
ErrorBody(text) == [kind |-> "error", error |-> text, chats |-> << >>]
TextBody(text) == [kind |-> "text", error |-> text, chats |-> << >>]

NoReq ==
  [ op |-> "none", pc |-> "idle",
    \* the request
    partsIsArray |-> FALSE, participants |-> << >>,
    msgsKind |-> "absent", seeds |-> << >>,
    chatId |-> "", msg |-> UNDEF, msgFrom |-> UNDEF, msgDateTime |-> UNDEF,
    participant |-> UNDEF, username |-> "",
    \* the handler's locals
    mids |-> << >>, userIds |-> << >>, saved |-> "", found |-> << >>,
    populated |-> << >>, threw |-> FALSE,
    \* what the handler has done
    accessed |-> FALSE, emits |-> 0,
    \* the response
    status |-> 0, body |-> NoBody ]

\* res.status(code).json(body) and return.
Respond(r, code, body) == [r EXCEPT !.pc = "done", !.status = code, !.body = body]

\* A store operation succeeds, or fails while failures are left to happen.
Outcomes == IF faults < MaxFaults THEN {TRUE, FALSE} ELSE {TRUE}
Count(ok) == IF ok THEN faults ELSE faults + 1

\* ------------------------------------------------------------ the chat store
ChatExists(id) == \E i \in DOMAIN chats : chats[i].id = id
ChatIndex(id) == CHOOSE i \in DOMAIN chats : chats[i].id = id

\* What populate makes of one stored message reference.
HydratedMessage(mid) ==
  [id |-> mid, msg |-> messages[mid].msg, msgFrom |-> messages[mid].msgFrom]

\* The chat with its message references and participants expanded.
Hydrated(id) ==
  LET c == chats[ChatIndex(id)]
  IN [ ok |-> TRUE, id |-> id, participants |-> c.participants,
       messages |-> [i \in DOMAIN c.messages |-> HydratedMessage(c.messages[i])] ]

\* An error-shaped object ({ error: ... }) and null, where a chat is expected.
ErrorDoc == [ok |-> FALSE, id |-> "error", participants |-> << >>, messages |-> << >>]
NullDoc == [ok |-> FALSE, id |-> "null", participants |-> << >>, messages |-> << >>]

ChatBody(doc) == [kind |-> "chat", error |-> "", chats |-> << doc >>]
ListBody(docs) == [kind |-> "list", error |-> "", chats |-> docs]

\* socket.to(chat._id).emit(...): an emit to the chat's room alone.
EmitToRoom(type, doc) ==
  [k \in Conns |->
     IF doc.id \in rooms[k]
     THEN delivered[k] \cup {[type |-> type, chat |-> doc.id, ok |-> doc.ok]}
     ELSE delivered[k]]

\* socket.emit('chatUpdate', { chat, type }): the server instance emits to
\* every connected client.
Emit(type, doc) ==
  [k \in Conns |-> delivered[k] \cup {[type |-> type, chat |-> doc.id, ok |-> doc.ok]}]

\* ------------------------------------------------------------------ requests
Seed(text, from, date) == [msg |-> text, msgFrom |-> from, msgDateTime |-> date]

CreateBody(isArray, parts, kind, seeds) ==
  [NoReq EXCEPT !.op = "createChat", !.partsIsArray = isArray,
                !.participants = parts, !.msgsKind = kind, !.seeds = seeds]

SeedHi == Seed(S("hi"), S("alice"), UNDEF)

\* The create-chat requests that arrive: well-formed ones (users that
\* exist or not, named once or twice, with and without seed messages) and
\* malformed ones.
CreateBodies ==
  { CreateBody(TRUE, << S("bob"), S("carol") >>, "absent", << >>),
    CreateBody(TRUE, << S("alice"), S("bob") >>, "array", << >>),
    CreateBody(TRUE, << S("alice"), S("bob") >>, "array", << SeedHi >>),
    CreateBody(TRUE, << S("alice"), S("bob") >>, "array",
               << SeedHi, Seed(S("yo"), S("ghost"), S("2025-01-01")) >>),
    CreateBody(TRUE, << S("alice"), S("alice") >>, "absent", << >>),
    CreateBody(TRUE, << S("alice"), S("ghost") >>, "array", << SeedHi >>),
    CreateBody(TRUE, << S("alice") >>, "absent", << >>),
    CreateBody(TRUE, << S("alice"), N7 >>, "absent", << >>),
    CreateBody(FALSE, << >>, "absent", << >>),
    CreateBody(TRUE, << S("alice"), S("bob") >>, "array",
               << Seed(S("hi"), S("alice"), S("someday")) >>) }

AddMessageBody(chatId, text, from, date) ==
  [NoReq EXCEPT !.op = "addMessage", !.chatId = chatId, !.msg = text,
                !.msgFrom = from, !.msgDateTime = date]

AddMessageBodies ==
  { AddMessageBody("c1", S("yo"), S("bob"), UNDEF),
    AddMessageBody("c1", S("yo"), S("ghost"), UNDEF),
    AddMessageBody("c2", S("yo"), S("bob"), UNDEF),
    AddMessageBody("bad", S("yo"), S("bob"), UNDEF),
    AddMessageBody("c1", S("   "), S("bob"), UNDEF),
    AddMessageBody("c1", S("yo"), N7, UNDEF),
    AddMessageBody("c1", S("yo"), S("bob"), S("someday")) }

GetChatParams == {[NoReq EXCEPT !.op = "getChat", !.chatId = c] : c \in {"c1", "c2", "bad"}}

GetChatsByUserParams ==
  {[NoReq EXCEPT !.op = "getChatsByUser", !.username = u] : u \in {"alice", "carol", "ghost"}}

AddParticipantBody(chatId, p) ==
  [NoReq EXCEPT !.op = "addParticipant", !.chatId = chatId, !.participant = p]

AddParticipantBodies ==
  { AddParticipantBody("c1", S("u3")),
    AddParticipantBody("c1", S("u1")),
    AddParticipantBody("c2", S("u3")),
    AddParticipantBody("c1", S("u9")),
    AddParticipantBody("c1", S("carol")),
    AddParticipantBody("bad", S("u3")),
    AddParticipantBody("c1", N7) }

\* What a client sends with joinChat or leaveChat.
ChannelArgs == {S("c1"), S("c2"), N7, UNDEF}

\* ------------------------------------------------------- create chat (POST)
validSeed(m) ==
  /\ m.msg.t = "string"
  /\ m.msgFrom.t = "string"
  /\ \/ Falsy(m.msgDateTime)
     \/ (m.msgDateTime.t = "string" /\ ~Date_parse_isNaN(m.msgDateTime.v))

\* The validation without the check of the number of participants.
isCreateChatRequestValid_NoCount(r) ==
  IF ~r.partsIsArray THEN FALSE
  ELSE /\ \A i \in DOMAIN r.participants : r.participants[i].t = "string"
       /\ \/ r.msgsKind = "absent"
          \/ (r.msgsKind = "array" /\ \A i \in DOMAIN r.seeds : validSeed(r.seeds[i]))

isCreateChatRequestValid(r) ==
  IF ~r.partsIsArray \/ Len(r.participants) < 2 THEN FALSE
  ELSE /\ \A i \in DOMAIN r.participants : r.participants[i].t = "string"
       /\ \/ r.msgsKind = "absent"
          \/ (r.msgsKind = "array" /\ \A i \in DOMAIN r.seeds : validSeed(r.seeds[i]))

\* A request may arrive at a slot that handles none, once the response of
\* the last one has been taken.
Free(s) == reqs[s].pc \in {"idle", "done"} /\ calls[s] = "none"
\* A new request is handled in the first free slot (the slots are alike).
FirstFree(s) == Free(s) /\ \A q \in Slots : q < s => ~Free(q)

\* With no script, any request may arrive while requests are left.  Under
\* the script of the spec's example, its three requests arrive in slot 1,
\* each once the one before it has been answered, while reads may arrive
\* in slot 2.
Arrives(s) == script = 0 /\ FirstFree(s) /\ issued < MaxRequests
ReadArrives(s) ==
  \/ Arrives(s)
  \/ (script > 0 /\ s = 2 /\ Free(2) /\ issued < MaxRequests)
ScriptArrives(s, k) == script = k /\ s = 1 /\ Free(1)
Answered(op, code) == reqs[1].op = op /\ reqs[1].status = code
Arrived ==
  /\ issued' = IF script = 0 THEN issued + 1 ELSE issued
  /\ script' = IF script = 0 THEN 0 ELSE script + 1

ExampleCreate == CreateBody(TRUE, << S("alice"), S("bob") >>, "array", << SeedHi >>)
ExampleAddMessage(chatId) == AddMessageBody(chatId, S("yo"), S("bob"), UNDEF)
ExampleAddParticipant(chatId) ==
  {AddParticipantBody(chatId, p) : p \in {S("carol"), S("u3")}}

CreateArrivals(s) ==
  IF Arrives(s) THEN CreateBodies
  ELSE IF ScriptArrives(s, 1) THEN {ExampleCreate}
  ELSE {}

AddMessageArrivals(s) ==
  IF Arrives(s) THEN AddMessageBodies
  ELSE IF ScriptArrives(s, 2) /\ Answered("createChat", 201)
  THEN {ExampleAddMessage(reqs[1].body.chats[1].id)}
  ELSE {}

AddParticipantArrivals(s) ==
  IF Arrives(s) THEN AddParticipantBodies
  ELSE IF ScriptArrives(s, 3) /\ Answered("addMessage", 200)
  THEN ExampleAddParticipant(reqs[1].body.chats[1].id)
  ELSE {}

\* createChatRoute up to its first await: validation, then saveChat starts
\* the seed messages' saves or, with none to save, the user lookup.
createChatArrives(s, body) ==
  /\ reqs' = [reqs EXCEPT ![s] =
       IF ~isCreateChatRequestValid(body)
       THEN Respond(body, 400, ErrorBody("Invalid chat creation request"))
       ELSE [body EXCEPT !.pc = IF body.msgsKind = "array" /\ Len(body.seeds) > 0
                                THEN "saveChat_save" ELSE "saveChat_find"]]
  /\ UNCHANGED << chats, messages, rooms, delivered, faults, hook, calls >>

createChatRoute(s) ==
  /\ \E body \in CreateArrivals(s) : createChatArrives(s, body)
  /\ Arrived

\* new MessageModel({ ...msg, type: 'direct' }): the seed as sent.
SeedDoc(m) == [msg |-> m.msg.v, msgFrom |-> m.msgFrom.v, type |-> "direct"]

\* saveChat, await Promise.all(messageDocs): every save is written, or one
\* fails, the others written or not, and saveChat's catch returns the error
\* that the route answers with 500.
saveChat_save(s) ==
  LET r == reqs[s]
      n == Len(messages)
  IN /\ r.pc = "saveChat_save"
     /\ \E ok \in Outcomes :
          /\ faults' = Count(ok)
          /\ IF ok
             THEN /\ messages' = messages \o [i \in DOMAIN r.seeds |-> SeedDoc(r.seeds[i])]
                  /\ reqs' = [reqs EXCEPT ![s] =
                       [r EXCEPT !.pc = "saveChat_find", !.accessed = TRUE,
                                 !.mids = [i \in DOMAIN r.seeds |-> n + i]]]
             ELSE \E kept \in (SUBSET DOMAIN r.seeds) \ {DOMAIN r.seeds} :
                  /\ messages' = messages \o
                       [i \in 1..Cardinality(kept) |->
                          SeedDoc(r.seeds[CHOOSE j \in kept :
                                    Cardinality({k \in kept : k < j}) = i - 1])]
                  /\ reqs' = [reqs EXCEPT ![s] =
                       Respond([r EXCEPT !.accessed = TRUE, !.threw = TRUE],
                               500, ErrorBody("Failed to save chat"))]
     /\ UNCHANGED << chats, rooms, delivered, issued, script, hook, calls >>

\* saveChat's lookup without the count check: the chat is created for the
\* users that were found.
saveChat_find_Lenient(s) ==
  LET r == reqs[s]
      users == UserModel_find({r.participants[i].v : i \in DOMAIN r.participants})
  IN /\ r.pc = "saveChat_find"
     /\ \E ok \in Outcomes :
          /\ faults' = Count(ok)
          /\ reqs' = [reqs EXCEPT ![s] =
               IF ~ok
               THEN Respond([r EXCEPT !.accessed = TRUE, !.threw = TRUE],
                            500, ErrorBody("Failed to save chat"))
               ELSE [r EXCEPT !.pc = "saveChat_create", !.accessed = TRUE,
                              !.userIds = [i \in DOMAIN users |-> users[i].id]]]
     /\ UNCHANGED << chats, messages, rooms, delivered, issued, script, hook, calls >>

\* saveChat, await UserModel.find and the count check on its result.
saveChat_find(s) ==
  LET r == reqs[s]
      users == UserModel_find({r.participants[i].v : i \in DOMAIN r.participants})
  IN /\ r.pc = "saveChat_find"
     /\ \E ok \in Outcomes :
          /\ faults' = Count(ok)
          /\ reqs' = [reqs EXCEPT ![s] =
               IF ~ok
               THEN Respond([r EXCEPT !.accessed = TRUE, !.threw = TRUE],
                            500, ErrorBody("Failed to save chat"))
               ELSE IF Len(users) # Len(r.participants)
               THEN Respond([r EXCEPT !.accessed = TRUE],
                            500, ErrorBody("Some users not found"))
               ELSE [r EXCEPT !.pc = "saveChat_create", !.accessed = TRUE,
                              !.userIds = [i \in DOMAIN users |-> users[i].id]]]
     /\ UNCHANGED << chats, messages, rooms, delivered, issued, script, hook, calls >>

\* A chat created without the seed messages' references.
NoMessagesChat(id, participantIds, messageIds) ==
  [id |-> id, participants |-> participantIds, messages |-> << >>]

\* The document ChatModel.create is given.
NewChat(id, participantIds, messageIds) ==
  [id |-> id, participants |-> participantIds, messages |-> messageIds]

\* saveChat, await ChatModel.create.
saveChat_create(s) ==
  LET r == reqs[s]
      id == ChatIdPool[Len(chats) + 1]
  IN /\ r.pc = "saveChat_create"
     /\ Len(chats) < Len(ChatIdPool)
     /\ \E ok \in Outcomes :
          /\ faults' = Count(ok)
          /\ IF ok
             THEN /\ chats' = Append(chats, NewChat(id, r.userIds, r.mids))
                  /\ reqs' = [reqs EXCEPT ![s] =
                       [r EXCEPT !.pc = "createChat_populate", !.saved = id]]
             ELSE /\ chats' = chats
                  /\ reqs' = [reqs EXCEPT ![s] =
                       Respond([r EXCEPT !.threw = TRUE],
                               500, ErrorBody("Failed to save chat"))]
     /\ UNCHANGED << messages, rooms, delivered, issued, script, hook, calls >>

\* createChatRoute, await ChatModel.findById(saved._id).populate(...), then
\* the emit and the response; a rejected query is caught by the route.
createChat_populate(s) ==
  LET r == reqs[s]
      doc == IF ChatExists(r.saved) THEN Hydrated(r.saved) ELSE NullDoc
  IN /\ r.pc = "createChat_populate"
     /\ \E ok \in Outcomes :
          /\ faults' = Count(ok)
          /\ IF ok
             THEN /\ delivered' = Emit("created", doc)
                  /\ reqs' = [reqs EXCEPT ![s] =
                       Respond([r EXCEPT !.emits = @ + 1, !.populated = << doc >>],
                               201, ChatBody(doc))]
             ELSE /\ delivered' = delivered
                  /\ reqs' = [reqs EXCEPT ![s] =
                       Respond([r EXCEPT !.threw = TRUE],
                               500, ErrorBody("Failed to create chat"))]
     /\ UNCHANGED << chats, messages, rooms, issued, script, hook, calls >>

\* The outcomes of populateDocument: the hydrated chat, an error-shaped
\* value, or a rejection.
PopulateOutcomes == IF faults < MaxFaults THEN {"ok", "error", "throw"} ELSE {"ok"}
CountPopulate(o) == IF o = "ok" THEN faults ELSE faults + 1

populateDocument(id, o) ==
  IF o = "ok" /\ ChatExists(id) THEN Hydrated(id) ELSE ErrorDoc

\* ---------------------------------------------------- add message (POST)
isAddMessageRequestValid(r) ==
  LET hasChatId == isValidObjectId(r.chatId)
      hasMsg == r.msg.t = "string" /\ trim(r.msg.v) # ""
      hasSender == r.msgFrom.t = "string"
      hasValidDate == r.msgDateTime.t = "undefined" \/ ~newDate_isNaN(r.msgDateTime)
  IN hasChatId /\ hasMsg /\ hasSender /\ hasValidDate

\* addMessageToChatRoute up to its first await: validation, the message
\* payload, and createMessage's user lookup started.
addMessageToChatRoute(s) ==
  /\ \E body \in AddMessageArrivals(s) :
       reqs' = [reqs EXCEPT ![s] =
         IF ~isAddMessageRequestValid(body)
         THEN Respond(body, 400, ErrorBody("Invalid message request"))
         ELSE [body EXCEPT !.pc = "createMessage_findOne"]]
  /\ Arrived
  /\ UNCHANGED << chats, messages, rooms, delivered, faults, hook, calls >>

\* createMessage, await UserModel.findOne; the route answers every error
\* value of createMessage with the same 500.
createMessage_findOne(s) ==
  LET r == reqs[s]
      user == UserModel_findOne(r.msgFrom.v)
  IN /\ r.pc = "createMessage_findOne"
     /\ \E ok \in Outcomes :
          /\ faults' = Count(ok)
          /\ reqs' = [reqs EXCEPT ![s] =
               IF ~ok
               THEN Respond([r EXCEPT !.accessed = TRUE, !.threw = TRUE],
                            500, ErrorBody("Message creation failed or ID missing"))
               ELSE IF user = << >>
               THEN Respond([r EXCEPT !.accessed = TRUE],
                            500, ErrorBody("Message creation failed or ID missing"))
               ELSE [r EXCEPT !.pc = "createMessage_save", !.accessed = TRUE]]
     /\ UNCHANGED << chats, messages, rooms, delivered, issued, script, hook, calls >>

\* new MessageModel(messageData): the payload the route built.
MessageDoc(r) == [msg |-> r.msg.v, msgFrom |-> r.msgFrom.v, type |-> "direct"]

\* createMessage, await message.save().
createMessage_save(s) ==
  LET r == reqs[s]
  IN /\ r.pc = "createMessage_save"
     /\ \E ok \in Outcomes :
          /\ faults' = Count(ok)
          /\ IF ok
             THEN /\ messages' = Append(messages, MessageDoc(r))
                  /\ reqs' = [reqs EXCEPT ![s] =
                       [r EXCEPT !.pc = "addMessageToChat", !.mids = << Len(messages) + 1 >>]]
             ELSE /\ messages' = messages
                  /\ reqs' = [reqs EXCEPT ![s] =
                       Respond([r EXCEPT !.threw = TRUE],
                               500, ErrorBody("Message creation failed or ID missing"))]
     /\ UNCHANGED << chats, rooms, delivered, issued, script, hook, calls >>

\* { $set: { messages: [messageId] } } in place of the $push.
SetMessages(chat, messageId) == [chat EXCEPT !.messages = << messageId >>]

\* { $push: { messages: { $each: [messageId], $position: 0 } } }.
PrependMessage(chat, messageId) == [chat EXCEPT !.messages = << messageId >> \o @]

\* { $push: { messages: { $each: [messageId, messageId] } } }.
PushMessageTwice(chat, messageId) ==
  [chat EXCEPT !.messages = Append(Append(@, messageId), messageId)]

\* findByIdAndUpdate(chatId, { $push: { messages: messageId } }) on the chat.
PushMessage(chat, messageId) == [chat EXCEPT !.messages = Append(@, messageId)]

\* addMessageToChat, await ChatModel.findByIdAndUpdate: one atomic update of
\* the chat document, or null when no chat has the identifier.
addMessageToChat(s) ==
  LET r == reqs[s]
  IN /\ r.pc = "addMessageToChat"
     /\ \E ok \in Outcomes :
          /\ faults' = Count(ok)
          /\ IF ~ok
             THEN /\ chats' = chats
                  /\ reqs' = [reqs EXCEPT ![s] =
                       Respond([r EXCEPT !.threw = TRUE],
                               500, ErrorBody("Failed to add message to chat"))]
             ELSE IF ~ChatExists(r.chatId)
             THEN /\ chats' = chats
                  /\ reqs' = [reqs EXCEPT ![s] = Respond(r, 500, ErrorBody("Chat not found"))]
             ELSE /\ chats' = [chats EXCEPT ![ChatIndex(r.chatId)] = PushMessage(@, r.mids[1])]
                  /\ reqs' = [reqs EXCEPT ![s] =
                       [r EXCEPT !.pc = "addMessage_populate", !.saved = r.chatId]]
     /\ UNCHANGED << messages, rooms, delivered, issued, script, hook, calls >>

\* addMessageToChatRoute, await populateDocument, then the emit and the
\* response, whatever populateDocument returned.
addMessage_populate(s) ==
  LET r == reqs[s]
  IN /\ r.pc = "addMessage_populate"
     /\ \E o \in PopulateOutcomes :
          LET doc == populateDocument(r.saved, o)
          IN /\ faults' = CountPopulate(o)
             /\ IF o = "throw"
                THEN /\ delivered' = delivered
                     /\ reqs' = [reqs EXCEPT ![s] =
                          Respond([r EXCEPT !.threw = TRUE],
                                  500, ErrorBody("Failed to add message to chat"))]
                ELSE /\ delivered' = Emit("newMessage", doc)
                     /\ reqs' = [reqs EXCEPT ![s] =
                          Respond([r EXCEPT !.emits = @ + 1, !.populated = << doc >>],
                                  200, ChatBody(doc))]
     /\ UNCHANGED << chats, messages, rooms, issued, script, hook, calls >>

\* ------------------------------------------------------------ get chat (GET)
\* getChatRoute up to its first await: getChat's findById started.
getChatRoute(s) ==
  /\ ReadArrives(s)
  /\ \E params \in GetChatParams :
       reqs' = [reqs EXCEPT ![s] = [params EXCEPT !.pc = "getChat"]]
  /\ issued' = issued + 1
  /\ UNCHANGED << chats, messages, rooms, delivered, faults, script, hook, calls >>

\* getChat, await ChatModel.findById: null and a failed read (a failure of
\* the store, or the cast of an identifier that is not well-formed) both
\* come back as error values, which the route answers with 404.
getChat(s) ==
  LET r == reqs[s]
  IN /\ r.pc = "getChat"
     /\ \E ok \in Outcomes :
          /\ faults' = Count(ok)
          /\ reqs' = [reqs EXCEPT ![s] =
               IF ~ok \/ ~isValidObjectId(r.chatId)
               THEN Respond([r EXCEPT !.accessed = TRUE, !.threw = TRUE],
                            404, ErrorBody("Failed to get chat"))
               ELSE IF ~ChatExists(r.chatId)
               THEN Respond([r EXCEPT !.accessed = TRUE], 404, ErrorBody("Chat not found"))
               ELSE [r EXCEPT !.pc = "getChat_populate", !.accessed = TRUE,
                              !.saved = r.chatId]]
     /\ UNCHANGED << chats, messages, rooms, delivered, issued, script, hook, calls >>

\* getChatRoute, await populateDocument, then the response.
getChat_populate(s) ==
  LET r == reqs[s]
  IN /\ r.pc = "getChat_populate"
     /\ \E o \in PopulateOutcomes :
          LET doc == populateDocument(r.saved, o)
          IN /\ faults' = CountPopulate(o)
             /\ reqs' = [reqs EXCEPT ![s] =
                  IF o = "throw"
                  THEN Respond([r EXCEPT !.threw = TRUE],
                               500, ErrorBody("Failed to retrieve chat"))
                  ELSE Respond([r EXCEPT !.populated = << doc >>], 200, ChatBody(doc))]
     /\ UNCHANGED << chats, messages, rooms, delivered, issued, script, hook, calls >>

\* ------------------------------------------- get chats by participant (GET)
\* getChatsByUserRoute up to its first await: getChatsByParticipants'
\* UserModel.find started.
getChatsByUserRoute(s) ==
  /\ ReadArrives(s)
  /\ \E params \in GetChatsByUserParams :
       reqs' = [reqs EXCEPT ![s] = [params EXCEPT !.pc = "getChats_findUsers"]]
  /\ issued' = issued + 1
  /\ UNCHANGED << chats, messages, rooms, delivered, faults, script, hook, calls >>

\* getChatsByParticipants, await UserModel.find({ username: { $in } }); its
\* catch turns a failed read into [], which the route answers with 200.
getChats_findUsers(s) ==
  LET r == reqs[s]
      users == UserModel_find({r.username})
  IN /\ r.pc = "getChats_findUsers"
     /\ \E ok \in Outcomes :
          /\ faults' = Count(ok)
          /\ reqs' = [reqs EXCEPT ![s] =
               IF ~ok
               THEN Respond([r EXCEPT !.accessed = TRUE, !.threw = TRUE],
                            200, ListBody(<< >>))
               ELSE [r EXCEPT !.pc = "getChats_find", !.accessed = TRUE,
                              !.userIds = [i \in DOMAIN users |-> users[i].id]]]
     /\ UNCHANGED << chats, messages, rooms, delivered, issued, script, hook, calls >>

\* A query on the first participant alone, in place of the $all.
MatchesFirst(chat, userIds) ==
  /\ userIds # << >>
  /\ chat.participants # << >>
  /\ chat.participants[1] \in Range(userIds)

\* { participants: { $all: userIds } } on one chat: the chat holds every
\* one of the identifiers; $all of no identifiers matches no document.
MatchesAll(chat, userIds) ==
  /\ userIds # << >>
  /\ \A i \in DOMAIN userIds : userIds[i] \in Range(chat.participants)

\* ChatModel.find(...): the matching chats, in store order.
ChatModel_find(userIds) == SelectSeq(chats, LAMBDA c : MatchesAll(c, userIds))

\* getChatsByParticipants, await ChatModel.find, then the route starts one
\* populateDocument per chat found (with none found, it answers at once).
getChats_find(s) ==
  LET r == reqs[s]
      docs == ChatModel_find(r.userIds)
      found == [i \in DOMAIN docs |-> docs[i].id]
  IN /\ r.pc = "getChats_find"
     /\ \E ok \in Outcomes :
          /\ faults' = Count(ok)
          /\ reqs' = [reqs EXCEPT ![s] =
               IF ~ok
               THEN Respond([r EXCEPT !.threw = TRUE], 200, ListBody(<< >>))
               ELSE IF found = << >>
               THEN Respond(r, 200, ListBody(<< >>))
               ELSE [r EXCEPT !.pc = "getChats_populate", !.found = found]]
     /\ UNCHANGED << chats, messages, rooms, delivered, issued, script, hook, calls >>

\* The route without the check of the populated chats.
hasError_Never(populatedChats) == FALSE

\* populatedChats.some(chat => chat.error !== undefined)
hasError(populatedChats) ==
  \E i \in DOMAIN populatedChats : ~populatedChats[i].ok

\* The ways the populateDocument calls of one listing end: all well, or one
\* of them (failures permitting) with an error value or a rejection.
ListOutcomes(n) ==
  {[i \in 1..n |-> "ok"]} \cup
  (IF faults < MaxFaults
   THEN {[i \in 1..n |-> IF i = j THEN o ELSE "ok"] : j \in 1..n, o \in {"error", "throw"}}
   ELSE {})

\* getChatsByUserRoute, await Promise.all(populateDocument ...), then the
\* check for error values and the response.
getChats_populate(s) ==
  LET r == reqs[s]
  IN /\ r.pc = "getChats_populate"
     /\ \E os \in ListOutcomes(Len(r.found)) :
          LET populatedChats == [i \in DOMAIN r.found |-> populateDocument(r.found[i], os[i])]
              rejected == \E i \in DOMAIN os : os[i] = "throw"
              rr == [r EXCEPT !.populated = populatedChats, !.threw = rejected]
          IN /\ faults' = IF \A i \in DOMAIN os : os[i] = "ok" THEN faults ELSE faults + 1
             /\ reqs' = [reqs EXCEPT ![s] =
                  IF rejected
                  THEN Respond(rr, 500, ErrorBody("Failed to retrieve chats"))
                  ELSE IF hasError(populatedChats)
                  THEN Respond(rr, 500, TextBody("Error retrieving chat: Failed populating chats"))
                  ELSE Respond(rr, 200, ListBody(populatedChats))]
     /\ UNCHANGED << chats, messages, rooms, delivered, issued, script, hook, calls >>

\* ------------------------------------------------- add participant (POST)
\* The validation without the check that the participant is an identifier.
isAddParticipantRequestValid_AnyString(r) ==
  /\ r.participant.t = "string"
  /\ isValidObjectId(r.chatId)

isAddParticipantRequestValid(r) ==
  /\ r.participant.t = "string"
  /\ isValidObjectId(r.chatId)
  /\ isValidObjectId(r.participant.v)

\* addParticipantToChatRoute up to its first await: validation, and
\* addParticipantToChat's update started.
addParticipantArrives(s, body) ==
  /\ reqs' = [reqs EXCEPT ![s] =
       IF ~isAddParticipantRequestValid(body)
       THEN Respond(body, 400, ErrorBody("Invalid participant"))
       ELSE [body EXCEPT !.pc = "addParticipantToChat"]]
  /\ UNCHANGED << chats, messages, rooms, delivered, faults, hook, calls >>

addParticipantToChatRoute(s) ==
  /\ \E body \in AddParticipantArrivals(s) : addParticipantArrives(s, body)
  /\ Arrived

\* { $push: { participants: userId } } in place of the $addToSet.
PushParticipant(chat, userId) == [chat EXCEPT !.participants = Append(@, userId)]

\* findByIdAndUpdate(chatId, { $addToSet: { participants: userId } }).
AddToSet(chat, userId) ==
  IF userId \in Range(chat.participants) THEN chat
  ELSE [chat EXCEPT !.participants = Append(@, userId)]

\* addParticipantToChat, await ChatModel.findByIdAndUpdate.
addParticipantToChat(s) ==
  LET r == reqs[s]
  IN /\ r.pc = "addParticipantToChat"
     /\ \E ok \in Outcomes :
          /\ faults' = Count(ok)
          /\ IF ~ok
             THEN /\ chats' = chats
                  /\ reqs' = [reqs EXCEPT ![s] =
                       Respond([r EXCEPT !.accessed = TRUE, !.threw = TRUE],
                               500, ErrorBody("Failed to add participant to chat"))]
             ELSE IF ~ChatExists(r.chatId)
             THEN /\ chats' = chats
                  /\ reqs' = [reqs EXCEPT ![s] =
                       Respond([r EXCEPT !.accessed = TRUE], 500, ErrorBody("Chat not found"))]
             ELSE /\ chats' = [chats EXCEPT ![ChatIndex(r.chatId)] = AddToSet(@, r.participant.v)]
                  /\ reqs' = [reqs EXCEPT ![s] =
                       [r EXCEPT !.pc = "addParticipant_populate", !.accessed = TRUE,
                                 !.saved = r.chatId]]
     /\ UNCHANGED << messages, rooms, delivered, issued, script, hook, calls >>

\* The last step of the route with an emit before the response, as in
\* addMessageToChatRoute.
addParticipant_populate_Emitting(s) ==
  LET r == reqs[s]
  IN /\ r.pc = "addParticipant_populate"
     /\ \E o \in PopulateOutcomes :
          LET doc == populateDocument(r.saved, o)
          IN /\ faults' = CountPopulate(o)
             /\ IF o = "throw"
                THEN /\ delivered' = delivered
                     /\ reqs' = [reqs EXCEPT ![s] =
                          Respond([r EXCEPT !.threw = TRUE],
                                  500, ErrorBody("Failed to add participant"))]
                ELSE /\ delivered' = Emit("participantAdded", doc)
                     /\ reqs' = [reqs EXCEPT ![s] =
                          Respond([r EXCEPT !.emits = @ + 1, !.populated = << doc >>],
                                  200, ChatBody(doc))]
     /\ UNCHANGED << chats, messages, rooms, issued, script, hook, calls >>

\* addParticipantToChatRoute, await populateDocument, then the response.
addParticipant_populate(s) ==
  LET r == reqs[s]
  IN /\ r.pc = "addParticipant_populate"
     /\ \E o \in PopulateOutcomes :
          LET doc == populateDocument(r.saved, o)
          IN /\ faults' = CountPopulate(o)
             /\ reqs' = [reqs EXCEPT ![s] =
                  IF o = "throw"
                  THEN Respond([r EXCEPT !.threw = TRUE],
                               500, ErrorBody("Failed to add participant"))
                  ELSE Respond([r EXCEPT !.populated = << doc >>], 200, ChatBody(doc))]
     /\ UNCHANGED << chats, messages, rooms, delivered, issued, script, hook, calls >>

\* ---------------------------------------------------------- socket handlers
\* conn.join(chatId) without the typeof check.
joinChat_Unchecked(k) ==
  /\ issued < MaxRequests
  /\ \E chatId \in ChannelArgs : rooms' = [rooms EXCEPT ![k] = @ \cup {chatId.v}]
  /\ issued' = issued + 1
  /\ UNCHANGED << chats, messages, reqs, delivered, faults, script, hook, calls >>

\* conn.on('joinChat'): a string identifier joins the connection to the room.
joinChat(k) ==
  /\ issued < MaxRequests
  /\ \E chatId \in ChannelArgs :
       rooms' = [rooms EXCEPT ![k] = IF chatId.t = "string" THEN @ \cup {chatId.v} ELSE @]
  /\ issued' = issued + 1
  /\ UNCHANGED << chats, messages, reqs, delivered, faults, script, hook, calls >>

\* conn.on('leaveChat'): a string identifier leaves the room.
leaveChat(k) ==
  /\ issued < MaxRequests
  /\ \E chatId \in ChannelArgs :
       rooms' = [rooms EXCEPT ![k] = IF chatId.t = "string" THEN @ \ {chatId.v} ELSE @]
  /\ issued' = issued + 1
  /\ UNCHANGED << chats, messages, reqs, delivered, faults, script, hook, calls >>

\* -------------------------------------------------------------- the system
\* The store the server starts on: empty, or what an earlier run left in it,
\* here the chat createChatRoute stores for ["alice", "bob"] seeded with "hi".
InitialStores ==
  { [chats |-> << >>, messages |-> << >>],
    [chats |-> << NewChat(ChatIdPool[1], << "u1", "u2" >>, << 1 >>) >>,
     messages |-> << SeedDoc(SeedHi) >>] }

Init ==
  /\ \E store \in InitialStores :
       /\ chats = store.chats
       /\ messages = store.messages
  /\ reqs = [s \in Slots |-> NoReq]
  /\ rooms = [k \in Conns |-> {}]
  /\ delivered = [k \in Conns |-> {}]
  /\ issued = 0
  /\ faults = 0
  /\ script = 0
  /\ hook = NoHook
  /\ calls = [s \in Slots |-> "none"]

Step(s) ==
  \/ createChatRoute(s)
  \/ saveChat_save(s)
  \/ saveChat_find(s)
  \/ saveChat_create(s)
  \/ createChat_populate(s)
  \/ addMessageToChatRoute(s)
  \/ createMessage_findOne(s)
  \/ createMessage_save(s)
  \/ addMessageToChat(s)
  \/ addMessage_populate(s)
  \/ getChatRoute(s)
  \/ getChat(s)
  \/ getChat_populate(s)
  \/ getChatsByUserRoute(s)
  \/ getChats_findUsers(s)
  \/ getChats_find(s)
  \/ getChats_populate(s)
  \/ addParticipantToChatRoute(s)
  \/ addParticipantToChat(s)
  \/ addParticipant_populate(s)

Next ==
  \/ \E s \in Slots : Step(s)
  \/ \E k \in Conns : joinChat(k) \/ leaveChat(k)

Spec == Init /\ [][Next]_vars

\* The example of the spec's testable properties: its three requests in
\* order against the empty store, no store operation failing, with reads
\* and channel subscriptions going on beside them.
InitExample ==
  /\ chats = << >>
  /\ messages = << >>
  /\ reqs = [s \in Slots |-> NoReq]
  /\ rooms = [k \in Conns |-> {}]
  /\ delivered = [k \in Conns |-> {}]
  /\ issued = 0
  /\ faults = MaxFaults
  /\ script = 1
  /\ hook = NoHook
  /\ calls = [s \in Slots |-> "none"]

SpecExample == InitExample /\ [][Next]_vars


\* ------------------------------------------------------------------- claims
Done(s, op) == reqs[s].pc = "done" /\ reqs[s].op = op

\* The identifier a username resolves to, if any.
Resolves(name) == \E i \in DOMAIN Users : Users[i].username = name
ResolvedIds(names) == {Users[i].id : i \in {j \in DOMAIN Users : Users[j].username \in names}}
NamesOf(r) == {r.participants[i].v : i \in DOMAIN r.participants}
DistinctNames(r) ==
  \A i, j \in DOMAIN r.participants : i # j => r.participants[i] # r.participants[j]

\* How often x occurs in the sequence seq, and whether a is a prefix of b.
Occurrences(x, seq) == Cardinality({i \in DOMAIN seq : seq[i] = x})
IsPrefix(a, b) == Len(a) <= Len(b) /\ \A i \in DOMAIN a : a[i] = b[i]

\* A create-chat request that passes validation with users that all exist.
ResolvableCreate(r) ==
  /\ r.op = "createChat"
  /\ isCreateChatRequestValid(r)
  /\ \A n \in NamesOf(r) : Resolves(n)

\* C1, as claimed: every create-chat request that passes validation and
\* whose participant usernames all resolve succeeds (no store operation
\* failing), and the chat returned has exactly the resolved identifiers as
\* its participants and as many messages as seed messages were supplied.
C1_Original ==
  \A s \in Slots :
    LET r == reqs[s]
    IN (r.pc = "done" /\ ResolvableCreate(r) /\ ~r.threw) =>
         /\ r.status = 201
         /\ r.body.kind = "chat"
         /\ Range(r.body.chats[1].participants) = ResolvedIds(NamesOf(r))
         /\ Len(r.body.chats[1].messages) = Len(r.seeds)

\* C1, amended: when the usernames are also pairwise distinct, the request
\* is answered 201; the chat document it creates has exactly the resolved
\* identifiers as participants and exactly the references of the saved seed
\* messages, one per seed, as its messages; and the chat returned is that
\* chat as hydrated afterwards: the same identifier, all of those
\* participants, and the seed messages first.
C1_CreateStoresResolvedChat ==
  [][\A s \in Slots :
       LET r == reqs[s]
           q == reqs'[s]
       IN /\ (r.pc = "saveChat_create" /\ q.pc = "createChat_populate") =>
               /\ Len(chats') = Len(chats) + 1
               /\ SubSeq(chats', 1, Len(chats)) = chats
               /\ LET c == chats'[Len(chats')]
                  IN /\ c.id = q.saved
                     /\ Range(c.participants) = ResolvedIds(NamesOf(r))
                     /\ Len(c.messages) = Len(r.seeds)
                     /\ \A i \in DOMAIN c.messages :
                          messages[c.messages[i]] = SeedDoc(r.seeds[i])
          /\ (r.pc # "done" /\ q.pc = "done" /\ ResolvableCreate(q)
                /\ DistinctNames(q) /\ ~q.threw) =>
               /\ q.status = 201
               /\ q.body.kind = "chat"
               /\ LET d == q.body.chats[1]
                  IN /\ d.ok
                     /\ d.id = q.saved
                     /\ ResolvedIds(NamesOf(q)) \subseteq Range(d.participants)
                     /\ Len(d.messages) >= Len(q.seeds)
                     /\ \A i \in DOMAIN q.seeds :
                          /\ d.messages[i].id = q.mids[i]
                          /\ d.messages[i].msg = q.seeds[i].msg.v
     ]_vars

\* A chat was created with seed messages and answered 201.
C1_Witness ==
  \E s \in Slots :
    /\ Done(s, "createChat")
    /\ reqs[s].status = 201
    /\ Len(reqs[s].seeds) = 2
    /\ Len(reqs[s].body.chats[1].messages) = 2
    /\ Cardinality(Range(reqs[s].body.chats[1].participants)) = 2

\* This step may be the arrival of a request at slot s (it is one, or it is
\* another step that leaves the slots as the arrival of a request like the
\* one last answered in s would), and this step is one.
MayArriveAt(s) ==
  /\ reqs[s].pc \in {"idle", "done"}
  /\ reqs'[s].pc # "idle"
  /\ issued' # issued \/ script' # script
  /\ \A o \in Slots \ {s} : reqs'[o] = reqs[o]
ArrivesAt(s) == MayArriveAt(s) /\ reqs'[s] # reqs[s]

\* An add-message request with text that is not blank, a sender that
\* exists, and a well-formed chat identifier and date.
SendableMessage(r) ==
  /\ r.op = "addMessage"
  /\ isValidObjectId(r.chatId)
  /\ r.msg.t = "string" /\ trim(r.msg.v) # ""
  /\ r.msgFrom.t = "string" /\ Resolves(r.msgFrom.v)
  /\ (r.msgDateTime.t = "undefined" \/ ~newDate_isNaN(r.msgDateTime))

\* C2: an add-message request with non-blank text and a sender that
\* exists, to a chat that exists, appends exactly one reference, that of
\* its new message, to the chat's message sequence; the new message's
\* sender is the requested sender; no other chat and no stored message
\* changes; and, no store operation failing, the request is answered 200
\* with the chat holding the new message once.
C2_AddMessageAppendsOne ==
  [][\A s \in Slots :
       LET r == reqs[s]
           q == reqs'[s]
       IN /\ (ArrivesAt(s) /\ SendableMessage(q)) => q.pc = "createMessage_findOne"
          /\ (r.pc = "createMessage_findOne" /\ q # r /\ ~q.threw /\ SendableMessage(r)) =>
               q.pc = "createMessage_save"
          /\ (r.pc = "createMessage_save" /\ q # r /\ ~q.threw) =>
               /\ q.pc = "addMessageToChat"
               /\ messages' = Append(messages, messages'[q.mids[1]])
               /\ q.mids = << Len(messages) + 1 >>
               /\ messages'[q.mids[1]].msgFrom = r.msgFrom.v
               /\ messages'[q.mids[1]].msg = r.msg.v
               /\ chats' = chats
          /\ (r.pc = "addMessageToChat" /\ q # r /\ ~q.threw
                /\ SendableMessage(r) /\ ChatExists(r.chatId)) =>
               LET i == ChatIndex(r.chatId)
               IN /\ q.pc = "addMessage_populate"
                  /\ Len(chats') = Len(chats)
                  /\ chats'[i].messages = Append(chats[i].messages, r.mids[1])
                  /\ Len(chats'[i].messages) = Len(chats[i].messages) + 1
                  /\ chats'[i].participants = chats[i].participants
                  /\ \A j \in DOMAIN chats : j # i => chats'[j] = chats[j]
                  /\ messages' = messages
          /\ (r.pc = "addMessage_populate" /\ q.pc = "done" /\ ~q.threw
                /\ q.populated[1].ok) =>
               /\ q.status = 200
               /\ q.body = ChatBody(q.populated[1])
               /\ q.body.chats[1].id = r.chatId
               /\ Cardinality({i \in DOMAIN q.body.chats[1].messages :
                     q.body.chats[1].messages[i].id = r.mids[1]}) = 1
               /\ \A i \in DOMAIN q.body.chats[1].messages :
                     q.body.chats[1].messages[i].id = r.mids[1] =>
                       q.body.chats[1].messages[i].msgFrom = r.msgFrom.v
     ]_vars

\* A message was added to a chat that held one already, and answered 200.
C2_Witness ==
  \E s \in Slots :
    /\ Done(s, "addMessage")
    /\ reqs[s].status = 200
    /\ reqs[s].body.chats[1].ok
    /\ Len(reqs[s].body.chats[1].messages) >= 2
    /\ reqs[s].body.chats[1].messages[Len(reqs[s].body.chats[1].messages)].id
         = reqs[s].mids[1]

\* The requests the three validated routes refuse.
FailsValidation(r) ==
  \/ r.op = "createChat" /\ (Len(r.participants) < 2 \/ ~isCreateChatRequestValid(r))
  \/ r.op = "addMessage" /\ ~isAddMessageRequestValid(r)
  \/ r.op = "addParticipant" /\ ~isAddParticipantRequestValid(r)

\* C3: a create-chat request with fewer than 2 participants, and any
\* create-chat, add-message or add-participant request that fails
\* validation, is answered 400 with an error as it arrives: no store access,
\* the stored chats and messages unchanged, no event emitted; and no
\* request answered 400 has accessed the store.
C3_InvalidRequestTouchesNothing ==
  [][\A s \in Slots :
       LET r == reqs[s]
           q == reqs'[s]
       IN /\ (MayArriveAt(s) /\ FailsValidation(q)) =>
               /\ q.pc = "done"
               /\ q.status = 400
               /\ q.body.kind = "error"
               /\ ~q.accessed
               /\ q.emits = 0
               /\ UNCHANGED << chats, messages, delivered, faults >>
          /\ (q.pc = "done" /\ q.status = 400) => (~q.accessed /\ q.emits = 0)
          /\ (q.op = "createChat" /\ Len(q.participants) < 2 /\ q.pc # "idle") =>
               (q.pc = "done" /\ q.status = 400)
     ]_vars

\* A create-chat request naming one participant was refused while another
\* request was being handled.
C3_Witness ==
  /\ Done(2, "createChat") /\ reqs[2].status = 400 /\ Len(reqs[2].participants) < 2
  /\ ~reqs[2].accessed
  /\ reqs[1].pc \notin {"idle", "done"}

\* C4, as claimed: a well-formed add-message request whose chat identifier
\* is that of no stored chat is answered 404 (no store operation failing).
C4_Claim ==
  \A s \in Slots :
    LET r == reqs[s]
    IN (Done(s, "addMessage") /\ isAddMessageRequestValid(r) /\ ~ChatExists(r.chatId)
          /\ ~r.threw) =>
         r.status = 404

\* C5: add-participant with an identifier the chat already holds leaves the
\* chat collection as it is; with any identifier it leaves every other chat
\* and the chat's messages as they are, and the chat's participants become
\* the participants before with the identifier added if it was not there.
C5_AddParticipantIdempotent ==
  [][\A s \in Slots :
       LET r == reqs[s]
           q == reqs'[s]
       IN (r.pc = "addParticipantToChat" /\ q.pc = "addParticipant_populate") =>
            LET i == ChatIndex(r.chatId)
                p == r.participant.v
                before == chats[i].participants
                after == chats'[i].participants
            IN /\ (p \in Range(before) => chats' = chats)
               /\ Range(after) = Range(before) \cup {p}
               /\ Occurrences(p, after) = IF p \in Range(before)
                                          THEN Occurrences(p, before) ELSE 1
               /\ IsPrefix(before, after)
               /\ chats'[i].messages = chats[i].messages
               /\ \A j \in DOMAIN chats : j # i => chats'[j] = chats[j]
     ]_vars

\* The same identifier has been added to the same chat by two requests, and
\* the chat holds it once.
C5_Witness ==
  /\ Done(1, "addParticipant") /\ reqs[1].status = 200
  /\ Done(2, "addParticipant") /\ reqs[2].status = 200
  /\ reqs[1].chatId = reqs[2].chatId
  /\ reqs[1].participant = reqs[2].participant
  /\ reqs[1].participant.v = "u3"
  /\ Occurrences("u3", chats[ChatIndex(reqs[1].chatId)].participants) = 1
  /\ Len(chats[ChatIndex(reqs[1].chatId)].participants) = 3

\* The stored chats whose participants include the user of that name, in
\* store order.
ChatsOf(name) ==
  SelectSeq(chats, LAMBDA c : ResolvedIds({name}) \cap Range(c.participants) # {})

\* C6: get-chats-by-participant finds exactly the stored chats whose
\* participants include the queried user (all of them, no others), and,
\* hydration succeeding, returns exactly the chats it found, each one
\* holding the user among its participants.
C6_ListIsExactlyTheUsersChats ==
  [][\A s \in Slots :
       LET r == reqs[s]
           q == reqs'[s]
           mine == ChatsOf(r.username)
       IN /\ (r.pc = "getChats_find" /\ q # r /\ ~q.threw) =>
               /\ q.found = [i \in DOMAIN mine |-> mine[i].id]
               /\ IF mine = << >>
                  THEN q.pc = "done" /\ q.status = 200 /\ q.body = ListBody(<< >>)
                  ELSE q.pc = "getChats_populate"
          /\ (r.pc = "getChats_populate" /\ q # r /\ ~hasError(q.populated)) =>
               /\ q.status = 200
               /\ q.body.kind = "list"
               /\ [i \in DOMAIN q.body.chats |-> q.body.chats[i].id] = r.found
               /\ \A i \in DOMAIN q.body.chats :
                    ResolvedIds({r.username}) \subseteq Range(q.body.chats[i].participants)
     ]_vars

\* A listing was answered with one chat while another chat, without the
\* user, is stored.
C6_Witness ==
  \E s \in Slots :
    /\ Done(s, "getChatsByUser")
    /\ reqs[s].status = 200
    /\ Len(reqs[s].body.chats) = 1
    /\ Len(chats) = 2
    /\ \E i \in DOMAIN chats :
         ResolvedIds({reqs[s].username}) \cap Range(chats[i].participants) = {}

\* C7: when the hydration of any chat of a listing fails, by rejecting or
\* by returning an error value, the listing is answered 500 with no list.
C7_ListingAllOrNothing ==
  \A s \in Slots :
    LET r == reqs[s]
    IN (Done(s, "getChatsByUser") /\ \E i \in DOMAIN r.populated : ~r.populated[i].ok) =>
         /\ r.status = 500
         /\ r.body.kind \in {"error", "text"}
         /\ r.body.chats = << >>

\* A listing failed on an error value returned for one of its chats.
C7_Witness ==
  \E s \in Slots :
    /\ Done(s, "getChatsByUser")
    /\ ~reqs[s].threw
    /\ \E i \in DOMAIN reqs[s].populated : ~reqs[s].populated[i].ok
    /\ reqs[s].status = 500

\* The add-message requests whose update of the chat has been applied.
Pushed(r) == r.op = "addMessage" /\ r.saved # ""

\* C8: add-message requests against the same chat, interleaved in any
\* way, lose no update: every update keeps the references the chat held,
\* in order, each request whose update was applied has its message's
\* reference in the chat exactly once, and with sendable input and no store
\* operation failing each is answered 200.
C8_ConcurrentAddsKeepBoth ==
  [][/\ Len(chats') >= Len(chats)
     /\ \A i \in DOMAIN chats : IsPrefix(chats[i].messages, chats'[i].messages)
     /\ \A s \in Slots :
          LET q == reqs'[s]
          IN /\ Pushed(q) =>
                  Occurrences(q.mids[1], chats'[ChatIndex(q.saved)].messages) = 1
             /\ (q.op = "addMessage" /\ q.pc = "done" /\ Pushed(q) /\ ~q.threw) =>
                  q.status = 200
     /\ \A s, o \in Slots :
          (s # o /\ Pushed(reqs'[s]) /\ Pushed(reqs'[o])) =>
             reqs'[s].mids[1] # reqs'[o].mids[1]
    ]_vars

\* Two add-message requests to one chat overlapped (the message saved first
\* was appended second), and both were answered 200.
C8_Witness ==
  /\ Done(1, "addMessage") /\ reqs[1].status = 200
  /\ Done(2, "addMessage") /\ reqs[2].status = 200
  /\ reqs[1].saved = reqs[2].saved
  /\ LET m == chats[ChatIndex(reqs[1].saved)].messages
         a == reqs[1].mids[1]
         b == reqs[2].mids[1]
     IN /\ Occurrences(a, m) = 1 /\ Occurrences(b, m) = 1
        /\ \E i, j \in DOMAIN m : m[i] = a /\ m[j] = b /\ ((a < b) # (i < j))

\* The three answers of the spec's example but the last.
ExampleCreateAnswer ==
  Done(1, "createChat") =>
    /\ reqs[1].status = 201
    /\ reqs[1].body.kind = "chat"
    /\ Len(reqs[1].body.chats[1].participants) = 2
    /\ Len(reqs[1].body.chats[1].messages) = 1
    /\ reqs[1].body.chats[1].messages[1].msg = "hi"

ExampleAddMessageAnswer ==
  Done(1, "addMessage") =>
    /\ reqs[1].status = 200
    /\ reqs[1].body.kind = "chat"
    /\ Len(reqs[1].body.chats[1].messages) = 2
    /\ reqs[1].body.chats[1].messages[2].msgFrom = "bob"
    /\ reqs[1].body.chats[1].messages[2].msg = "yo"

ExampleThreeParticipants ==
  /\ reqs[1].status = 200
  /\ reqs[1].body.kind = "chat"
  /\ Len(reqs[1].body.chats[1].participants) = 3

\* C9, as claimed: in the example, create-chat is answered with 2
\* participants and the message "hi", add-message with 2 messages, the
\* second from bob, and add-participant "carol" with 3 participants.
C9_Original ==
  /\ ExampleCreateAnswer
  /\ ExampleAddMessageAnswer
  /\ (Done(1, "addParticipant") /\ reqs[1].participant = S("carol")) =>
       ExampleThreeParticipants

\* C9, amended: the first two answers are as claimed; add-participant
\* with carol's identifier is answered with 3 participants, and
\* add-participant with the username "carol" is answered 400 and leaves the
\* chat with 2 participants.
C9_ExampleWithIdentifier ==
  /\ ExampleCreateAnswer
  /\ ExampleAddMessageAnswer
  /\ (Done(1, "addParticipant") /\ reqs[1].participant = S("u3")) =>
       /\ ExampleThreeParticipants
       /\ "u3" \in Range(reqs[1].body.chats[1].participants)
  /\ (Done(1, "addParticipant") /\ reqs[1].participant = S("carol")) =>
       /\ reqs[1].status = 400
       /\ Len(chats[1].participants) = 2

\* The example has run to its end, the participant added by identifier.
C9_Witness ==
  /\ script = 4
  /\ Done(1, "addParticipant")
  /\ reqs[1].participant = S("u3")
  /\ reqs[1].status = 200
  /\ Len(chats) = 1
  /\ Len(chats[1].messages) = 2

\* C10, as claimed: a newMessage event is delivered only to the connections
\* that have joined the channel of the chat it is about, and an add-message
\* answered 200 has emitted exactly one event.
C10_Claim ==
  [][/\ \A k \in Conns :
          \A e \in delivered'[k] \ delivered[k] :
            (e.type = "newMessage" /\ e.ok) => e.chat \in rooms[k]
     /\ \A s \in Slots :
          (reqs'[s].op = "addMessage" /\ reqs'[s].pc = "done" /\ reqs'[s].status = 200) =>
             reqs'[s].emits = 1
    ]_vars

\* The chatUpdate event of a kind about a chat.
Event(type, id) == [type |-> type, chat |-> id, ok |-> TRUE]

\* C11: a create-chat request that is answered 201 has emitted exactly one
\* event, in the step that answers it and with the chat already stored: a
\* 'created' event about the chat it created, new to every connection and
\* delivered to every connection whatever its rooms, and the answer carries
\* that chat; a create-chat request emits nothing before it is answered and
\* nothing when it is answered with an error.
C11_CreatedEventOnSuccess ==
  [][\A s \in Slots :
       LET r == reqs[s]
           q == reqs'[s]
       IN /\ (r.pc = "createChat_populate" /\ q.pc = "done" /\ q.status = 201) =>
               /\ ChatExists(r.saved)
               /\ chats' = chats
               /\ q.emits = 1
               /\ q.body = ChatBody(Hydrated(r.saved))
               /\ \A k \in Conns :
                    /\ Event("created", r.saved) \notin delivered[k]
                    /\ delivered'[k] = delivered[k] \cup {Event("created", r.saved)}
          /\ (q.op = "createChat" /\ q # r /\ ~(q.pc = "done" /\ q.status = 201)) =>
               /\ q.emits = 0
               /\ delivered' = delivered
          /\ (q.op = "createChat" /\ q.pc = "done") => (q.emits = 1 <=> q.status = 201)
     ]_vars

\* A chat was created and its event delivered to a connection in a room
\* and to a connection in none.
C11_Witness ==
  \E s \in Slots :
    /\ Done(s, "createChat") /\ reqs[s].status = 201
    /\ rooms["k1"] # {} /\ rooms["k2"] = {}
    /\ \A k \in Conns : Event("created", reqs[s].saved) \in delivered[k]

\* C12: no step of an add-participant request, from its arrival to its
\* answer and whatever the answer, changes the events delivered to any
\* connection, and the request has emitted nothing.
C12_AddParticipantEmitsNothing ==
  [][\A s \in Slots :
       LET r == reqs[s]
           q == reqs'[s]
       IN (q.op = "addParticipant" /\ q # r) =>
            /\ \A k \in Conns : delivered'[k] = delivered[k]
            /\ q.emits = 0
     ]_vars

\* A participant was added to a chat, and no connection has received any
\* event.
C12_Witness ==
  \E s \in Slots :
    /\ Done(s, "addParticipant") /\ reqs[s].status = 200
    /\ reqs[s].body.chats[1].ok
    /\ "u3" \in Range(chats[ChatIndex(reqs[s].chatId)].participants)
    /\ \A k \in Conns : delivered[k] = {}

\* C13, as claimed: a get-chat request with a well-formed identifier is
\* answered 404 when no chat has the identifier, 500 when the read of the
\* store failed, and 200 with the hydrated chat when the chat exists and
\* its hydration succeeded.
C13_Claim ==
  \A s \in Slots :
    LET r == reqs[s]
    IN (Done(s, "getChat") /\ isValidObjectId(r.chatId)) =>
         /\ (r.saved = "" /\ ~r.threw) => r.status = 404
         /\ (r.saved = "" /\ r.threw) => r.status = 500
         /\ (r.saved # "" /\ ~r.threw /\ r.populated[1].ok) =>
              (r.status = 200 /\ r.body.chats[1].id = r.chatId)

\* C14, as claimed: a well-formed add-participant request whose chat
\* identifier is that of no stored chat is answered 404 (no store operation
\* failing).
C14_Claim ==
  \A s \in Slots :
    LET r == reqs[s]
    IN (Done(s, "addParticipant") /\ isAddParticipantRequestValid(r)
          /\ ~ChatExists(r.chatId) /\ ~r.threw) =>
         r.status = 404

\* An add-message request whose sender is a string that is the username of
\* no user.
UnknownSender(r) == r.op = "addMessage" /\ r.msgFrom.t = "string" /\ ~Resolves(r.msgFrom.v)

\* C15: no step of an add-message request whose sender is no user's
\* username changes the stored messages, the stored chats or the events
\* delivered; the request has saved no message and emitted nothing; and it
\* is answered with an error, by the sender lookup at the latest.
C15_UnknownSenderNoEffect ==
  [][\A s \in Slots :
       LET r == reqs[s]
           q == reqs'[s]
       IN /\ (UnknownSender(q) /\ q # r) =>
               /\ messages' = messages
               /\ chats' = chats
               /\ delivered' = delivered
               /\ q.mids = << >>
               /\ q.emits = 0
               /\ q.pc \in {"createMessage_findOne", "done"}
          /\ (UnknownSender(q) /\ q.pc = "done") =>
               /\ q.status \in {400, 500}
               /\ q.body.kind = "error"
          /\ (UnknownSender(r) /\ r.pc = "createMessage_findOne" /\ q # r) =>
               (q.pc = "done" /\ q.status = 500)
     ]_vars

\* A well-formed add-message request for a stored chat, from a sender that
\* is no user, was answered 500 by the sender lookup.
C15_Witness ==
  \E s \in Slots :
    /\ Done(s, "addMessage") /\ UnknownSender(reqs[s])
    /\ isAddMessageRequestValid(reqs[s])
    /\ ChatExists(reqs[s].chatId)
    /\ ~reqs[s].threw
    /\ reqs[s].status = 500

\* C16, as claimed: every request that has been answered has one answer,
\* and every answer that reports a failure (a status of 400 or more) is a
\* JSON object with an error text, never a bare text body and never
\* nothing.
C16_Claim ==
  \A s \in Slots :
    LET r == reqs[s]
    IN r.pc = "done" =>
         /\ r.status # 0
         /\ r.status >= 400 => r.body.kind = "error"

\* The channels a joinChat or leaveChat can name with a string.
Channels == {a.v : a \in {b \in ChannelArgs : b.t = "string"}}

\* C17: while requests may arrive, every connection can join and can leave
\* every channel named by a string, and doing so adds, or removes, exactly
\* that channel for that connection; every step that changes a subscription
\* changes one connection's rooms by one such channel and leaves the other
\* connections' rooms, the stored chats and messages, the requests and the
\* delivered events as they are; and no room is ever named by what a
\* joinChat that was not given a string carried.
C17_JoinLeaveExactlyThatChannel ==
  /\ [](issued < MaxRequests =>
          \A k \in Conns : \A c \in Channels :
            /\ ENABLED (joinChat(k) /\ rooms' = [rooms EXCEPT ![k] = @ \cup {c}])
            /\ ENABLED (leaveChat(k) /\ rooms' = [rooms EXCEPT ![k] = @ \ {c}]))
  /\ [][/\ rooms' # rooms =>
            /\ \E k \in Conns : \E c \in Channels :
                 /\ rooms'[k] \in {rooms[k] \cup {c}, rooms[k] \ {c}}
                 /\ \A o \in Conns \ {k} : rooms'[o] = rooms[o]
            /\ UNCHANGED << chats, messages, reqs, delivered >>
        /\ \A k \in Conns : rooms'[k] \subseteq Channels
       ]_vars

\* A connection has joined the channel of a chat that is not stored, and
\* nothing else has changed.
C17_Witness ==
  /\ rooms["k1"] = {"c2"}
  /\ ~ChatExists("c2")
  /\ rooms["k2"] = {}
  /\ issued = MaxRequests
  /\ \A s \in Slots : reqs[s].pc = "idle"

\* The users found for a create-chat request are not as many as the
\* participants it names.
CountMismatch(r) == Cardinality(ResolvedIds(NamesOf(r))) # Len(r.participants)

\* The message is referenced by some stored chat.
Referenced(mid, cs) == \E i \in DOMAIN cs : mid \in Range(cs[i].messages)

\* C18: a create-chat request whose user lookup finds a number of users
\* other than the number of participants named is answered 500 'Some users
\* not found' by that step, and one whose chat write fails is answered 500
\* by that step; either step leaves the stored chats and messages as they
\* are; a request answered 500 without a chat written has its saved seed
\* messages still stored, referenced by no chat; stored messages are never
\* removed; and an answered request takes no further step (its slot changes
\* next when a new request arrives).
C18_StrictAndNotTransactional ==
  [][\A s \in Slots :
       LET r == reqs[s]
           q == reqs'[s]
       IN /\ (r.pc = "saveChat_find" /\ q # r /\ ~q.threw /\ CountMismatch(r)) =>
               /\ q.pc = "done" /\ q.status = 500
               /\ q.body = ErrorBody("Some users not found")
               /\ chats' = chats /\ messages' = messages
          /\ (r.pc = "saveChat_create" /\ q # r /\ q.threw) =>
               /\ q.pc = "done" /\ q.status = 500
               /\ q.body.kind = "error"
               /\ chats' = chats /\ messages' = messages
          /\ (q.op = "createChat" /\ q.pc = "done" /\ q.status = 500 /\ q.saved = "") =>
               \A i \in DOMAIN q.mids :
                 /\ q.mids[i] \in DOMAIN messages'
                 /\ messages'[q.mids[i]] = SeedDoc(q.seeds[i])
                 /\ ~Referenced(q.mids[i], chats')
          /\ IsPrefix(messages, messages')
          /\ (r.pc = "done" /\ q # r) => (issued' # issued \/ script' # script)
     ]_vars

\* A create-chat request naming a user that does not exist was answered
\* 500, and the seed message it had saved is stored and in no chat.
C18_Witness ==
  \E s \in Slots :
    /\ Done(s, "createChat") /\ reqs[s].status = 500
    /\ reqs[s].body = ErrorBody("Some users not found")
    /\ Len(reqs[s].mids) = 1
    /\ reqs[s].mids[1] \in DOMAIN messages
    /\ ~Referenced(reqs[s].mids[1], chats)
    /\ Len(messages) > Len(chats)

\* C19: no step removes a chat or changes its place or identifier, and
\* every step leaves each chat's message sequence as a prefix of what it
\* becomes: references are appended, never removed, replaced or reordered.
\* (Holding of every step, it holds between any earlier and later state.)
C19_MessagesAppendOnly ==
  [][/\ Len(chats') >= Len(chats)
     /\ \A i \in DOMAIN chats :
          /\ chats'[i].id = chats[i].id
          /\ IsPrefix(chats[i].messages, chats'[i].messages)
          /\ Len(chats'[i].messages) <= Len(chats[i].messages) + 1
    ]_vars

\* A chat created with two messages has been given a third, and the two
\* are still its first.
C19_Witness ==
  \E i \in DOMAIN chats :
    /\ Len(chats[i].messages) = 3
    /\ \E s \in Slots :
         /\ Done(s, "createChat") /\ reqs[s].saved = chats[i].id
         /\ Len(reqs[s].mids) = 2
         /\ IsPrefix(reqs[s].mids, chats[i].messages)

\* C20: in every state, no stored chat holds a participant identifier
\* twice.
C20_ParticipantsUnique ==
  \A i \in DOMAIN chats :
    \A a, b \in DOMAIN chats[i].participants :
      a # b => chats[i].participants[a] # chats[i].participants[b]

\* A create-chat request naming the same user twice has been answered, and
\* a participant already in a chat has been added to it again.
C20_Witness ==
  /\ \E s \in Slots :
       /\ Done(s, "createChat") /\ ~DistinctNames(reqs[s])
       /\ isCreateChatRequestValid(reqs[s])
  /\ \E s \in Slots :
       /\ Done(s, "addParticipant") /\ reqs[s].status = 200
       /\ reqs[s].participant.v = "u1"
       /\ Occurrences("u1", chats[ChatIndex(reqs[s].chatId)].participants) = 1

\* C21: in every state, every stored chat has at least two distinct
\* participants, and a create-chat request that names a user more than
\* once has created no chat.
C21_AtLeastTwoParticipants ==
  /\ \A i \in DOMAIN chats : Cardinality(Range(chats[i].participants)) >= 2
  /\ \A s \in Slots :
       (reqs[s].op = "createChat" /\ ~DistinctNames(reqs[s])) => reqs[s].saved = ""

\* A valid create-chat request naming the same user twice was answered
\* 500 on an empty store, which is still empty.
C21_Witness ==
  \E s \in Slots :
    /\ Done(s, "createChat")
    /\ isCreateChatRequestValid(reqs[s]) /\ ~DistinctNames(reqs[s])
    /\ ~reqs[s].threw
    /\ reqs[s].status = 500
    /\ chats = << >>

\* The identifiers of the users that exist.
UserIds == {Users[i].id : i \in DOMAIN Users}

\* C22, as claimed: in every state, every participant of every stored chat
\* is the identifier of an existing user (users are never removed, so
\* this is so when the participant is written).
C22_Claim ==
  \A i \in DOMAIN chats : Range(chats[i].participants) \subseteq UserIds

\* How many times the stored chats reference the message, all together.
References(mid) ==
  Cardinality(UNION {{<< i, j >> : j \in {k \in DOMAIN chats[i].messages :
                                             chats[i].messages[k] = mid}} :
                     i \in DOMAIN chats})

\* C23, as claimed: in every state, every stored message is referenced by
\* exactly one chat, exactly once.
C23_Original == \A mid \in DOMAIN messages : References(mid) = 1

\* C23, amended: in every state, every stored message is referenced at most
\* once by the stored chats all together (by at most one chat, at most once
\* in it), and every reference in a chat is to a stored message; a stored
\* message may be referenced by no chat.
C23_AtMostOneReference ==
  /\ \A mid \in DOMAIN messages : References(mid) <= 1
  /\ \A i \in DOMAIN chats : Range(chats[i].messages) \subseteq DOMAIN messages

\* With every request answered, one stored message is in a chat and another
\* is in none.
C23_Witness ==
  /\ \A s \in Slots : reqs[s].pc \in {"idle", "done"}
  /\ \E mid \in DOMAIN messages : References(mid) = 1
  /\ \E mid \in DOMAIN messages : References(mid) = 0

\* C24, as claimed: every message a step stores has the identifier of a
\* user as its sender, and every participant a step writes into a chat is
\* the identifier of a user; neither is ever a username.
C24_Claim ==
  [][/\ \A mid \in DOMAIN messages' \ DOMAIN messages :
          messages'[mid].msgFrom \in UserIds
     /\ \A i \in DOMAIN chats' :
          \A p \in Range(chats'[i].participants) :
            (i \notin DOMAIN chats \/ p \notin Range(chats[i].participants)) =>
               p \in UserIds
    ]_vars

\* C25, as claimed: in every state, every event delivered carries a
\* hydrated chat, and every create-chat, add-message, get-chat and
\* add-participant request answered 200 or 201 was answered with a hydrated
\* chat.
C25_Claim ==
  /\ \A k \in Conns : \A e \in delivered[k] : e.ok
  /\ \A s \in Slots :
       LET r == reqs[s]
       IN (r.pc = "done" /\ r.status \in {200, 201}
             /\ r.op \in {"createChat", "addMessage", "getChat", "addParticipant"}) =>
            (r.body.kind = "chat" /\ r.body.chats[1].ok)

\* C26, as claimed: in every state, the sender of every stored message is
\* the username of an existing user (users are never removed, so it was
\* when the message was stored).
C26_Claim == \A mid \in DOMAIN messages : Resolves(messages[mid].msgFrom)

\* C27, as claimed: when a step answers a get-chats-by-participant request
\* 200 with the empty list, no stored chat holds the queried user, and a
\* request whose user or chat lookup failed is not answered 200.
C27_Claim ==
  [][\A s \in Slots :
       LET r == reqs[s]
           q == reqs'[s]
       IN (r.op = "getChatsByUser" /\ r.pc # "done" /\ q.pc = "done"
             /\ q.status = 200 /\ q.body = ListBody(<< >>)) =>
            /\ ChatsOf(r.username) = << >>
            /\ ~q.threw
     ]_vars

\* ---------------------------------------------------------- the client hook
\* One client of the server: the useDirectMessage hook of the user alice,
\* whose socket is the connection k1.  Its calls to the server arrive as
\* requests in the slots and are handled by the routes above; the hook goes
\* on when it takes the response.  React renders and runs the effect of a
\* state update before the hook takes anything else.
user == Users[1]
ClientConn == "k1"

\* The selections and creations the user asks for in one behaviour.
MaxActs == 2

\* The slot a call of the client arrives at: the first that is free, the
\* response in slot `taken` (0: none) counting as taken.
ArrivalFree(s, taken) == s = taken \/ Free(s)
CanArrive(taken) == \E s \in Slots : ArrivalFree(s, taken)
ArrivalSlot(taken) ==
  CHOOSE s \in Slots :
    ArrivalFree(s, taken) /\ \A q \in Slots : q < s => ~ArrivalFree(q, taken)

\* chatService getChatsByUser: GET /chats/user/:username, at whose arrival
\* getChatsByUserRoute starts getChatsByParticipants' user lookup.
getChatsByUser(username) ==
  [NoReq EXCEPT !.op = "getChatsByUser", !.username = username,
                !.pc = "getChats_findUsers"]

\* chatService getChatById: GET /chats/:chatId, at whose arrival getChatRoute
\* starts getChat.
getChatById(chatID) ==
  [NoReq EXCEPT !.op = "getChat", !.chatId = chatID, !.pc = "getChat"]

\* fetchChats up to its await: the hook asks for the chats of user._id.
fetchChats(rq, cl, taken) ==
  LET s == ArrivalSlot(taken)
  IN [ reqs |-> [rq EXCEPT ![s] = getChatsByUser(user.id)],
       calls |-> [cl EXCEPT ![s] = "fetch"] ]

\* conn.on('joinChat') and conn.on('leaveChat') on what the hook emits,
\* which is a string; the socket keeps the order of what it sends.
handleJoinChat(rm, chatID) == rm \cup {chatID}
emitLeaveChat(rm, chatID) == IF chatID = "" THEN rm ELSE rm \ {chatID}

\* The component mounts: the effect runs for the first time, starts
\* fetchChats and registers handleChatUpdate for the events to come.
mount ==
  /\ hook.mounted = "no"
  /\ CanArrive(0)
  /\ LET f == fetchChats(reqs, calls, 0)
     IN reqs' = f.reqs /\ calls' = f.calls
  /\ hook' = [hook EXCEPT !.mounted = "yes", !.handled = delivered[ClientConn]]
  /\ UNCHANGED << chats, messages, rooms, delivered, issued, faults, script >>

\* fetchChats after its await: a response other than 200 is thrown by the
\* service; an array has no 'error' in it and becomes the list, whole.
fetchChats_result(s) ==
  LET r == reqs[s]
      result == [i \in DOMAIN r.body.chats |-> r.body.chats[i].id]
  IN /\ calls[s] = "fetch"
     /\ r.pc = "done"
     /\ calls' = [calls EXCEPT ![s] = "none"]
     /\ hook' = IF r.status = 200 /\ hook.mounted = "yes"
                THEN [hook EXCEPT !.chats = result]
                ELSE hook
     /\ UNCHANGED << chats, messages, reqs, rooms, delivered, issued, faults, script >>

\* The chats the user can select: those of the list; with none selected
\* the component passes undefined.
Selectable == Range(hook.chats) \cup {""}

\* handleChatSelect up to its await: nothing for no identifier, else the
\* chat is asked for.
handleChatSelect(chatID) ==
  /\ hook.mounted = "yes"
  /\ hook.acts < MaxActs
  /\ hook' = [hook EXCEPT !.acts = @ + 1]
  /\ IF chatID = ""
     THEN UNCHANGED << reqs, calls >>
     ELSE /\ CanArrive(0)
          /\ reqs' = [reqs EXCEPT ![ArrivalSlot(0)] = getChatById(chatID)]
          /\ calls' = [calls EXCEPT ![ArrivalSlot(0)] = "select"]
  /\ UNCHANGED << chats, messages, rooms, delivered, issued, faults, script >>

\* handleChatSelect after its await: a response other than 200 is thrown by
\* the service and an error-shaped chat is dropped; else the chat is
\* selected and joinChat emitted.  Mounted, a selection of another chat
\* renders: the effect's cleanup emits leaveChat for the chat selected
\* before, and the effect starts fetchChats again.  Unmounted, the state
\* update is lost and joinChat is emitted all the same.
handleChatSelect_chat(s) ==
  LET r == reqs[s]
      isChat == r.status = 200 /\ r.body.kind = "chat" /\ r.body.chats[1].ok
      chat == r.body.chats[1]
      taken == [calls EXCEPT ![s] = "none"]
      joined == handleJoinChat(rooms[ClientConn], r.chatId)
  IN /\ calls[s] = "select"
     /\ r.pc = "done"
     /\ IF ~isChat
        THEN /\ calls' = taken
             /\ UNCHANGED << reqs, rooms, hook >>
        ELSE IF hook.mounted # "yes"
        THEN /\ calls' = taken
             /\ rooms' = [rooms EXCEPT ![ClientConn] = joined]
             /\ UNCHANGED << reqs, hook >>
        ELSE IF chat.id = hook.selectedChat
        THEN /\ calls' = taken
             /\ rooms' = [rooms EXCEPT ![ClientConn] = joined]
             /\ UNCHANGED << reqs, hook >>
        ELSE LET f == fetchChats(reqs, taken, s)
             IN /\ reqs' = f.reqs
                /\ calls' = f.calls
                /\ rooms' = [rooms EXCEPT ![ClientConn] =
                               emitLeaveChat(joined, hook.selectedChat)]
                /\ hook' = [hook EXCEPT !.selectedChat = chat.id]
     /\ UNCHANGED << chats, messages, delivered, issued, faults, script >>

\* handleCreateChat: the chat is posted to /createChat, a path the router
\* has no route for; the 404 is thrown by the service at the await, and
\* nothing after it runs.
handleCreateChat ==
  /\ hook.mounted = "yes"
  /\ hook.acts < MaxActs
  /\ hook' = [hook EXCEPT !.acts = @ + 1]
  /\ UNCHANGED << chats, messages, reqs, rooms, delivered, issued, faults,
                  script, calls >>

\* handleChatUpdate on an event received while it is registered: a created
\* chat is appended unless the list has its identifier; a new message
\* replaces the selected chat by the same chat.
handleChatUpdate(e) ==
  LET exists == e.chat \in Range(hook.chats)
  IN /\ hook.mounted = "yes"
     /\ e \in delivered[ClientConn] \ hook.handled
     /\ hook' = IF e.type = "created" /\ ~exists
                THEN [hook EXCEPT !.handled = @ \cup {e},
                                  !.chats = Append(@, e.chat),
                                  !.added = @ \cup {e.chat}]
                ELSE [hook EXCEPT !.handled = @ \cup {e}]
     /\ UNCHANGED << chats, messages, reqs, rooms, delivered, issued, faults,
                     script, calls >>

\* The component unmounts: the effect's cleanup takes handleChatUpdate off
\* and emits leaveChat for the chat selected; the state is gone.
unmount ==
  /\ hook.mounted = "yes"
  /\ rooms' = [rooms EXCEPT ![ClientConn] = emitLeaveChat(@, hook.selectedChat)]
  /\ hook' = [NoHook EXCEPT !.mounted = "gone"]
  /\ UNCHANGED << chats, messages, reqs, delivered, issued, faults, script, calls >>

\* The client beside the requests of others, of which one may arrive less
\* than without it.
InitClient ==
  /\ \E store \in InitialStores :
       /\ chats = store.chats
       /\ messages = store.messages
  /\ reqs = [s \in Slots |-> NoReq]
  /\ rooms = [k \in Conns |-> {}]
  /\ delivered = [k \in Conns |-> {}]
  /\ issued = MaxRequests - 1
  /\ faults = 0
  /\ script = 0
  /\ hook = NoHook
  /\ calls = [s \in Slots |-> "none"]

NextClient ==
  \/ \E s \in Slots : Step(s)
  \/ mount
  \/ unmount
  \/ \E chatID \in Selectable : handleChatSelect(chatID)
  \/ handleCreateChat
  \/ \E e \in delivered[ClientConn] : handleChatUpdate(e)
  \/ \E s \in Slots : fetchChats_result(s) \/ handleChatSelect_chat(s)

SpecClient == InitClient /\ [][NextClient]_vars

\* The chat of the store with an identifier of the hook's list has the
\* user among its participants.
IsParticipant(id) ==
  ChatExists(id) /\ user.id \in Range(chats[ChatIndex(id)].participants)

\* Nothing of the client is pending: no call is on its way or unanswered,
\* and every event received while mounted has been handled.
Quiescent ==
  /\ \A s \in Slots : calls[s] = "none"
  /\ hook.mounted = "yes" => delivered[ClientConn] \subseteq hook.handled

\* C28, as claimed: in every state, every chat of the hook's list is a chat
\* the user is a participant of.
C28_Claim == \A i \in DOMAIN hook.chats : IsParticipant(hook.chats[i])

\* C29, as claimed: in every state of the mounted hook, every chat that was
\* added to the list by a created event or a create-chat response is in the
\* list, and no identifier is in the list twice.
C29_Claim ==
  hook.mounted = "yes" =>
    /\ hook.added \subseteq Range(hook.chats)
    /\ \A i, j \in DOMAIN hook.chats : hook.chats[i] = hook.chats[j] => i = j

\* C30, as claimed: in every state where nothing of the client is pending,
\* the client's connection is in the room of the selected chat and in no
\* other, and in none with no chat selected or the hook unmounted.
C30_Claim ==
  Quiescent =>
    rooms[ClientConn] = IF hook.selectedChat = "" THEN {} ELSE {hook.selectedChat}
====
